---- MODULE Spec2Model ----
(***************************************************************************)
(* Session orchestration of the diabetes analytics front end:              *)
(*   Index (pages/Index)        owns currentPrediction and refreshTrigger   *)
(*   PredictionForm             validates the form and POSTs /predict      *)
(*   DetailedAnalysis, RiskAssessment, HealthRecommendations               *)
(*                              re-fetch when the predictionData prop       *)
(*                              changes                                     *)
(*   WhatIfAnalysis             POSTs /what_if for one overridden feature   *)
(*   PredictionHistory          mirrors GET /history, charts it             *)
(*   ModelInfo                  GETs /model_info and /stats together        *)
(* Every component is taken as mounted where Index renders it; which tab   *)
(* is selected is not part of the state.                                    *)
(* Numbers are integers; probabilities are held in percent.  An absent     *)
(* value (null) is the empty sequence, a present value x is <<x>>.          *)
(***************************************************************************)
EXTENDS Integers, Sequences, FiniteSets, TLC

VARIABLES
    formData,           \* PredictionForm: useState formData
    formLoading,        \* PredictionForm: useState loading
    formResult,         \* PredictionForm: useState result
    formError,          \* PredictionForm: useState error
    formIsCurrent,      \* the formData object is the object held in currentPrediction
    predictFlight,      \* POST /predict requests awaiting their response
    currentPrediction,  \* Index: useState currentPrediction
    refreshTrigger,     \* Index: useState refreshTrigger
    viewLoading,        \* per dependent view: useState loading
    viewData,           \* per dependent view: useState data
    viewError,          \* per dependent view: useState error
    viewFlight,         \* per dependent view: requests awaiting their response
    served,             \* the dependent view whose requests are answered in this run
    selectedFeature,    \* WhatIfAnalysis: useState selectedFeature
    newValue,           \* WhatIfAnalysis: useState newValue (the text of the input)
    whatIfLoading,      \* WhatIfAnalysis: useState loading
    whatIfResult,       \* WhatIfAnalysis: useState result
    whatIfFlight,       \* POST /what_if requests awaiting their response
    historyLoading,     \* PredictionHistory: useState loading
    historyData,        \* PredictionHistory: useState data
    historyError,       \* PredictionHistory: useState error
    historyFlight,      \* GET /history requests awaiting their response
    clearFlight,        \* DELETE /history requests awaiting their response
    modelLoading,       \* ModelInfo: useState loading
    modelData,          \* ModelInfo: useState modelData
    statsData,          \* ModelInfo: useState statsData
    modelError,         \* ModelInfo: useState error
    modelFlight,        \* GET /model_info and GET /stats: how each request stands
    remoteLog,          \* the prediction log kept by the scoring service
    okCount             \* number of 2xx responses to POST /predict delivered so far

formVars == <<formData, formLoading, formResult, formError, formIsCurrent, predictFlight>>
indexVars == <<currentPrediction, refreshTrigger>>
viewVars == <<viewLoading, viewData, viewError, viewFlight, served>>
whatIfVars == <<selectedFeature, newValue, whatIfLoading, whatIfResult, whatIfFlight>>
historyVars == <<historyLoading, historyData, historyError, historyFlight, clearFlight>>
modelVars == <<modelLoading, modelData, statsData, modelError, modelFlight>>
serviceVars == <<remoteLog, okCount>>
vars == <<formVars, indexVars, viewVars, whatIfVars, historyVars, modelVars, serviceVars>>

----------------------------------------------------------------------------
(* Bounds of the model *)

\* commits are explored until refreshTrigger reaches this value
MaxRevision == 2

\* clear requests are issued while fewer history requests than this are pending
MaxHistoryFlight == 2

----------------------------------------------------------------------------
(* Values *)

Null == <<>>
Some(x) == <<x>>

Fields == <<"Pregnancies", "Glucose", "BloodPressure", "BMI", "Age">>
FieldNames == {Fields[i] : i \in 1..Len(Fields)}

\* useState initial value of formData, and the value resetForm installs
DefaultFormData ==
    [Pregnancies |-> 0, Glucose |-> 0, BloodPressure |-> 0, BMI |-> 0, Age |-> 0]

\* e.target.value of a number input: the empty text or the text of a number
Texts(name) ==
    CASE name = "BMI" -> {<<28>>}
      [] name = "Age" -> {<<>>, <<45>>, <<60>>}
      [] OTHER -> {}

\* parseFloat(value) || 0: the empty text parses to NaN, which is falsy
ParseFloatOrZero(text) == IF Len(text) = 0 THEN 0 ELSE text[1]

----------------------------------------------------------------------------
(* PredictionForm.validateForm: the message passed to setError, "" when the *)
(* form is accepted                                                         *)

\* !x for a number x that is not NaN
Falsy(x) == x = 0

\* validateForm with the lower bound of Age written as for the other fields
ValidationMessageAgeFromZero(fd) ==
    IF Falsy(fd.Pregnancies) /\ fd.Pregnancies # 0
        THEN "All fields are required"
    ELSE IF fd.Pregnancies < 0 \/ fd.Pregnancies > 20
        THEN "Pregnancies must be between 0 and 20"
    ELSE IF fd.Glucose < 0 \/ fd.Glucose > 300
        THEN "Glucose must be between 0 and 300 mg/dL"
    ELSE IF fd.BloodPressure < 0 \/ fd.BloodPressure > 200
        THEN "Blood Pressure must be between 0 and 200 mmHg"
    ELSE IF fd.BMI < 10 \/ fd.BMI > 70
        THEN "BMI must be between 10 and 70"
    ELSE IF fd.Age < 0 \/ fd.Age > 120
        THEN "Age must be between 1 and 120"
    ELSE ""

\* validateForm with the check of BMI written before the check of Glucose
ValidationMessageBMIFirst(fd) ==
    IF Falsy(fd.Pregnancies) /\ fd.Pregnancies # 0
        THEN "All fields are required"
    ELSE IF fd.Pregnancies < 0 \/ fd.Pregnancies > 20
        THEN "Pregnancies must be between 0 and 20"
    ELSE IF fd.BMI < 10 \/ fd.BMI > 70
        THEN "BMI must be between 10 and 70"
    ELSE IF fd.Glucose < 0 \/ fd.Glucose > 300
        THEN "Glucose must be between 0 and 300 mg/dL"
    ELSE IF fd.BloodPressure < 0 \/ fd.BloodPressure > 200
        THEN "Blood Pressure must be between 0 and 200 mmHg"
    ELSE IF fd.Age < 1 \/ fd.Age > 120
        THEN "Age must be between 1 and 120"
    ELSE ""

ValidationMessage(fd) ==
    IF Falsy(fd.Pregnancies) /\ fd.Pregnancies # 0
        THEN "All fields are required"
    ELSE IF fd.Pregnancies < 0 \/ fd.Pregnancies > 20
        THEN "Pregnancies must be between 0 and 20"
    ELSE IF fd.Glucose < 0 \/ fd.Glucose > 300
        THEN "Glucose must be between 0 and 300 mg/dL"
    ELSE IF fd.BloodPressure < 0 \/ fd.BloodPressure > 200
        THEN "Blood Pressure must be between 0 and 200 mmHg"
    ELSE IF fd.BMI < 10 \/ fd.BMI > 70
        THEN "BMI must be between 10 and 70"
    ELSE IF fd.Age < 1 \/ fd.Age > 120
        THEN "Age must be between 1 and 120"
    ELSE ""

\* validateForm returning true on its last branch as well
validateFormFallsThrough(fd) ==
    ValidationMessage(fd) \in {"", "Age must be between 1 and 120"}

validateForm(fd) == ValidationMessage(fd) = ""

----------------------------------------------------------------------------
(* The remote scoring service (an external collaborator).  Each response   *)
(* records the request body it was computed for.                           *)

ServiceProbability(body) ==
    LET sum == body.Pregnancies + body.Glucose + body.BloodPressure + body.BMI + body.Age
    IN  IF sum < 0 THEN 0 ELSE IF sum > 100 THEN 100 ELSE sum

ServicePredict(body) ==
    [scored |-> body,
     probability |-> ServiceProbability(body),
     prediction |-> IF ServiceProbability(body) >= 50 THEN "Diabetic" ELSE "Non-Diabetic"]

Views == {"detailed", "risk", "recommendations"}

\* Object.entries(feature_contributions) of a detailed prediction: the pairs
\* in the order of the keys in the response body
ContributionLists ==
    {<<[feature |-> f[1], weight |-> w[1]], [feature |-> f[2], weight |-> w[2]],
       [feature |-> f[3], weight |-> w[3]]>> :
         f \in {g \in [1..3 -> {"Glucose", "BMI", "Age"}] :
                     \A i, j \in 1..3 : i # j => g[i] # g[j]},
         w \in [1..3 -> {10, 30}]}

\* the risk_level of a risk assessment entry
RiskLevels == {"High", "Medium", "Low"}

\* the array a risk assessment responds with, one entry per assessed feature
RiskLists ==
    UNION {[1..n -> [risk_level : RiskLevels]] : n \in 0..3}

\* what a 2xx body may hold for the view that reads it
Payloads(v) ==
    CASE v = "detailed" -> ContributionLists
      [] v = "risk" -> RiskLists
      [] v = "recommendations" -> {<<>>}

ServiceView(v, body, payload) == [view |-> v, scored |-> body, payload |-> payload]

FailureMessage(v) ==
    CASE v = "detailed" -> "Failed to fetch detailed analysis"
      [] v = "risk" -> "Failed to fetch risk assessment"
      [] v = "recommendations" -> "Failed to fetch recommendations"

\* err.message of the TypeError fetch rejects with when no response arrives
TransportMessage == "Failed to fetch"

RemoveAt(s, i) == SubSeq(s, 1, i - 1) \o SubSeq(s, i + 1, Len(s))

\* the two requests ModelInfo's effect issues together
ModelRequests == {"model_info", "stats"}

----------------------------------------------------------------------------
(* Initial state: every component as constructed by its useState calls     *)

InitSession(fd, answered, log) ==
    /\ formData = fd
    /\ formLoading = FALSE
    /\ formResult = Null
    /\ formError = ""
    /\ formIsCurrent = FALSE
    /\ predictFlight = <<>>
    /\ currentPrediction = Null
    /\ refreshTrigger = 0
    /\ viewLoading = [v \in Views |-> TRUE]
    /\ viewData = [v \in Views |-> Null]
    /\ viewError = [v \in Views |-> ""]
    /\ viewFlight = [v \in Views |-> <<>>]
    /\ served = answered
    /\ selectedFeature = "Glucose"
    /\ newValue = <<>>
    /\ whatIfLoading = FALSE
    /\ whatIfResult = Null
    /\ whatIfFlight = <<>>
    /\ historyLoading = TRUE
    /\ historyData = Null
    /\ historyError = ""
    /\ historyFlight = <<Null>>
    /\ clearFlight = 0
    /\ modelLoading = TRUE
    /\ modelData = Null
    /\ statsData = Null
    /\ modelError = ""
    /\ modelFlight = [r \in ModelRequests |-> "pending"]
    /\ remoteLog = log
    /\ okCount = 0

\* the page is opened on a scoring service whose log is empty
InitWith(fd, answered) == InitSession(fd, answered, <<>>)

Init == InitWith(DefaultFormData, "detailed")

----------------------------------------------------------------------------
(* PredictionForm *)

\* inputs without the disabled attribute
InputAlwaysEnabled == TRUE

\* the inputs carry disabled={loading}
InputEnabled == ~formLoading

\* a submit button without the disabled attribute
SubmitAlwaysEnabled == TRUE

\* the submit button carries disabled={loading}
SubmitEnabled == ~formLoading

\* a reset button without the disabled attribute
ResetAlwaysEnabled == TRUE

\* the reset button carries disabled={loading}
ResetEnabled == ~formLoading

handleInputChange(name, text) ==
    /\ InputEnabled
    /\ formData' = [formData EXCEPT ![name] = ParseFloatOrZero(text)]
    /\ formError' = ""
    /\ formIsCurrent' = FALSE
    /\ UNCHANGED <<formLoading, formResult, predictFlight, indexVars, viewVars,
                   whatIfVars, modelVars,
                   historyVars, serviceVars>>

HandleInputChange ==
    \E name \in FieldNames : \E text \in Texts(name) : handleInputChange(name, text)

\* handleSubmit up to its await: validateForm, then the request is issued
HandleSubmit ==
    /\ SubmitEnabled
    /\ validateForm(formData) => refreshTrigger + Len(predictFlight) < MaxRevision
    /\ IF ~validateForm(formData)
         THEN /\ formError' = ValidationMessage(formData)
              /\ UNCHANGED <<formData, formLoading, formResult, formIsCurrent,
                             predictFlight>>
         ELSE /\ formLoading' = TRUE
              /\ formError' = ""
              /\ formResult' = Null
              /\ predictFlight' =
                     Append(predictFlight, [body |-> formData, same |-> formIsCurrent])
              /\ UNCHANGED <<formData, formIsCurrent>>
    /\ UNCHANGED <<indexVars, viewVars, whatIfVars, modelVars, historyVars, serviceVars>>

\* PredictionHistory.fetchHistory up to its await
fetchHistory ==
    /\ historyLoading' = TRUE
    /\ historyError' = ""
    /\ historyFlight' = Append(historyFlight, Null)

\* handlePredictionComplete without its setRefreshTrigger call
handlePredictionCompleteNoTrigger(data, sameObject) ==
    /\ currentPrediction' = Some(data)
    /\ refreshTrigger' = refreshTrigger
    /\ UNCHANGED historyVars
    /\ IF sameObject
         THEN UNCHANGED viewVars
         ELSE /\ viewLoading' = [v \in Views |-> TRUE]
              /\ viewError' = [v \in Views |-> ""]
              /\ viewFlight' = [v \in Views |-> Append(viewFlight[v], data)]
              /\ UNCHANGED <<viewData, served>>

\* handlePredictionComplete when PredictionHistory's effect has no dependency
\* on refreshTrigger
handlePredictionCompleteNoRefresh(data, sameObject) ==
    /\ currentPrediction' = Some(data)
    /\ refreshTrigger' = refreshTrigger + 1
    /\ UNCHANGED historyVars
    /\ IF sameObject
         THEN UNCHANGED viewVars
         ELSE /\ viewLoading' = [v \in Views |-> TRUE]
              /\ viewError' = [v \in Views |-> ""]
              /\ viewFlight' = [v \in Views |-> Append(viewFlight[v], data)]
              /\ UNCHANGED <<viewData, served>>

\* Index.handlePredictionComplete, with the effects its render runs: every
\* dependent view whose predictionData prop is a new object fetches again, and
\* PredictionHistory, whose refreshTrigger prop has changed, fetches again
handlePredictionComplete(data, sameObject) ==
    /\ currentPrediction' = Some(data)
    /\ refreshTrigger' = refreshTrigger + 1
    /\ fetchHistory
    /\ UNCHANGED <<historyData, clearFlight>>
    /\ IF sameObject
         THEN UNCHANGED viewVars
         ELSE /\ viewLoading' = [v \in Views |-> TRUE]
              /\ viewError' = [v \in Views |-> ""]
              /\ viewFlight' = [v \in Views |-> Append(viewFlight[v], data)]
              /\ UNCHANGED <<viewData, served>>

\* the entry the scoring service logs for a prediction it has served
LogEntry(body, time) ==
    [timestamp |-> time,
     input |-> body,
     prediction |-> ServicePredict(body).prediction,
     probability |-> ServicePredict(body).probability]

\* handleSubmit without its onPredictionComplete(formData) call
PredictOkSilent ==
    \E i \in 1..Len(predictFlight) :
        /\ remoteLog' = Append(remoteLog, LogEntry(predictFlight[i].body, okCount + 1))
        /\ okCount' = okCount + 1
        /\ formResult' = Some(ServicePredict(predictFlight[i].body))
        /\ formLoading' = FALSE
        /\ predictFlight' = RemoveAt(predictFlight, i)
        /\ UNCHANGED <<formData, formError, formIsCurrent, indexVars, viewVars,
                       whatIfVars, modelVars, historyVars>>

\* handleSubmit after its await, response.ok
PredictOk ==
    \E i \in 1..Len(predictFlight) :
        /\ remoteLog' = Append(remoteLog, LogEntry(predictFlight[i].body, okCount + 1))
        /\ okCount' = okCount + 1
        /\ formResult' = Some(ServicePredict(predictFlight[i].body))
        /\ handlePredictionComplete(predictFlight[i].body, predictFlight[i].same)
        /\ formIsCurrent' = TRUE
        /\ formLoading' = FALSE
        /\ predictFlight' = RemoveAt(predictFlight, i)
        /\ UNCHANGED <<formData, formError, whatIfVars, modelVars>>

\* handleSubmit calling onPredictionComplete(formData) in its finally block
PredictFailStillCompletes ==
    \E i \in 1..Len(predictFlight) :
        \E msg \in {"Failed to get prediction", TransportMessage} :
            /\ formError' = msg
            /\ formLoading' = FALSE
            /\ predictFlight' = RemoveAt(predictFlight, i)
            /\ handlePredictionComplete(predictFlight[i].body, predictFlight[i].same)
            /\ formIsCurrent' = TRUE
            /\ UNCHANGED <<formData, formResult, whatIfVars, modelVars, serviceVars>>

\* a handleSubmit that issues the request again when it has failed
PredictFailRetries ==
    \E i \in 1..Len(predictFlight) :
        \E msg \in {"Failed to get prediction", TransportMessage} :
            /\ formError' = msg
            /\ predictFlight' = Append(RemoveAt(predictFlight, i), predictFlight[i])
            /\ UNCHANGED <<formData, formLoading, formResult, formIsCurrent, indexVars,
                           viewVars, whatIfVars, modelVars, historyVars, serviceVars>>

\* handleSubmit after its await, a non-2xx response or no response at all
PredictFail ==
    \E i \in 1..Len(predictFlight) :
        \E msg \in {"Failed to get prediction", TransportMessage} :
            /\ formError' = msg
            /\ formLoading' = FALSE
            /\ predictFlight' = RemoveAt(predictFlight, i)
            /\ UNCHANGED <<formData, formResult, formIsCurrent, indexVars, viewVars,
                           whatIfVars, modelVars, historyVars, serviceVars>>

ResetForm ==
    /\ ResetEnabled
    /\ formData' = DefaultFormData
    /\ formResult' = Null
    /\ formError' = ""
    /\ formIsCurrent' = FALSE
    /\ UNCHANGED <<formLoading, predictFlight, indexVars, viewVars, whatIfVars, modelVars,
                   historyVars, serviceVars>>

----------------------------------------------------------------------------
(* DetailedAnalysis / RiskAssessment / HealthRecommendations: the rest of  *)
(* the effect's async function, after its await                             *)

ViewResponseOk(v) ==
    \E i \in 1..Len(viewFlight[v]) :
        \E payload \in Payloads(v) :
            /\ viewData' =
                   [viewData EXCEPT ![v] = Some(ServiceView(v, viewFlight[v][i], payload))]
            /\ viewLoading' = [viewLoading EXCEPT ![v] = FALSE]
            /\ viewFlight' = [viewFlight EXCEPT ![v] = RemoveAt(@, i)]
            /\ UNCHANGED <<viewError, served, formVars, indexVars, whatIfVars, modelVars,
                           historyVars, serviceVars>>

\* a fetch that installs the body of a failed response as the view's data
ViewResponseFailInstalls(v) ==
    \E i \in 1..Len(viewFlight[v]) :
        \E msg \in {FailureMessage(v), TransportMessage} :
            /\ viewError' = [viewError EXCEPT ![v] = msg]
            /\ viewData' = [viewData EXCEPT ![v] = Some([detail |-> msg])]
            /\ viewLoading' = [viewLoading EXCEPT ![v] = FALSE]
            /\ viewFlight' = [viewFlight EXCEPT ![v] = RemoveAt(@, i)]
            /\ UNCHANGED <<served, formVars, indexVars, whatIfVars, modelVars,
                           historyVars, serviceVars>>

ViewResponseFail(v) ==
    \E i \in 1..Len(viewFlight[v]) :
        \E msg \in {FailureMessage(v), TransportMessage} :
            /\ viewError' = [viewError EXCEPT ![v] = msg]
            /\ viewLoading' = [viewLoading EXCEPT ![v] = FALSE]
            /\ viewFlight' = [viewFlight EXCEPT ![v] = RemoveAt(@, i)]
            /\ UNCHANGED <<viewData, served, formVars, indexVars, whatIfVars, modelVars,
                           historyVars, serviceVars>>

ViewOk == ViewResponseOk(served)
ViewFail == ViewResponseFail(served)

\* DetailedAnalysis renders its report: neither the spinner nor the alert
DetailedShown ==
    ~viewLoading["detailed"] /\ viewError["detailed"] = "" /\ viewData["detailed"] # Null

\* the comparator ([, a], [, b]) => a - b
compareAscending(a, b) == a.weight - b.weight

\* the comparator ([, a], [, b]) => b - a
compareContributions(a, b) == b.weight - a.weight

\* one step of a sort that puts an element before the elements it ties with
InsertBeforeTies(sorted, e) ==
    LET k == Cardinality({i \in 1..Len(sorted) : compareContributions(sorted[i], e) < 0})
    IN  SubSeq(sorted, 1, k) \o <<e>> \o SubSeq(sorted, k + 1, Len(sorted))

\* one step of Array.prototype.sort, which is stable: e goes behind every
\* element the comparator does not order after it
Insert(sorted, e) ==
    LET k == Cardinality({i \in 1..Len(sorted) : compareContributions(sorted[i], e) <= 0})
    IN  SubSeq(sorted, 1, k) \o <<e>> \o SubSeq(sorted, k + 1, Len(sorted))

RECURSIVE Sort(_)
Sort(entries) ==
    IF entries = <<>>
        THEN <<>>
        ELSE Insert(Sort(SubSeq(entries, 1, Len(entries) - 1)), entries[Len(entries)])

\* Object.entries(data.feature_contributions).sort(([, a], [, b]) => b - a)
rankContributions(entries) == Sort(entries)

\* RiskAssessment renders its summary: neither the spinner nor the alert
RiskShown == ~viewLoading["risk"] /\ viewError["risk"] = ""

\* RiskAssessment's data: useState([]) until a response is stored
riskData == IF viewData["risk"] = Null THEN <<>> ELSE viewData["risk"][1].payload

IsHigh(d) == d.risk_level = "High"
IsMedium(d) == d.risk_level = "Medium"

highRiskCount(data) == Len(SelectSeq(data, IsHigh))
mediumRiskCount(data) == Len(SelectSeq(data, IsMedium))

\* a Low Risk count that subtracts the High Risk count only
lowRiskCountLessHigh(data) == Len(data) - highRiskCount(data)

\* data.length - highRiskCount - mediumRiskCount
lowRiskCount(data) == Len(data) - highRiskCount(data) - mediumRiskCount(data)

----------------------------------------------------------------------------
(* WhatIfAnalysis, rendered by Index once currentPrediction is set, with    *)
(* initialData = currentPrediction                                          *)

WhatIfMounted == currentPrediction # Null

\* the features table: the min and max attributes of the newValue input
features ==
    [Pregnancies |-> [min |-> 0, max |-> 20],
     Glucose |-> [min |-> 0, max |-> 300],
     BloodPressure |-> [min |-> 0, max |-> 200],
     BMI |-> [min |-> 10, max |-> 70],
     Age |-> [min |-> 1, max |-> 120]]

\* texts typed into the newValue input
WhatIfTexts == {<<>>, <<45>>, <<500>>}

\* the what-if operation of the scoring service
ServiceWhatIf(req) ==
    LET modified == [req.body EXCEPT ![req.feature] = req.value]
    IN  [baseline |-> req.body,
         feature |-> req.feature,
         value |-> req.value,
         original_probability |-> ServiceProbability(req.body),
         modified_probability |-> ServiceProbability(modified),
         probability_change |->
             ServiceProbability(modified) - ServiceProbability(req.body)]

\* the Select is never disabled
SetSelectedFeature ==
    /\ WhatIfMounted
    /\ \E f \in FieldNames : selectedFeature' = f
    /\ UNCHANGED <<newValue, whatIfLoading, whatIfResult, whatIfFlight,
                   formVars, indexVars, viewVars, modelVars, historyVars, serviceVars>>

\* the newValue input carries disabled={loading}
SetNewValue ==
    /\ WhatIfMounted
    /\ ~whatIfLoading
    /\ \E text \in WhatIfTexts : newValue' = text
    /\ UNCHANGED <<selectedFeature, whatIfLoading, whatIfResult, whatIfFlight,
                   formVars, indexVars, viewVars, modelVars, historyVars, serviceVars>>

\* what handleAnalyze does with newValue before it issues the request
AnalyzeRejects(feature, text) == Len(text) = 0

\* handleAnalyze up to its await; the button carries disabled={loading}.  An
\* empty newValue only raises the "Please enter a value" toast.
HandleAnalyze ==
    /\ WhatIfMounted
    /\ ~whatIfLoading
    /\ IF AnalyzeRejects(selectedFeature, newValue)
         THEN UNCHANGED <<whatIfLoading, whatIfFlight>>
         ELSE /\ whatIfLoading' = TRUE
              /\ whatIfFlight' =
                     Append(whatIfFlight,
                            [feature |-> selectedFeature,
                             value |-> newValue[1],
                             body |-> currentPrediction[1]])
    /\ UNCHANGED <<selectedFeature, newValue, whatIfResult,
                   formVars, indexVars, viewVars, modelVars, historyVars, serviceVars>>

\* handleAnalyze after its await, response.ok
WhatIfOk ==
    \E i \in 1..Len(whatIfFlight) :
        /\ whatIfResult' = Some(ServiceWhatIf(whatIfFlight[i]))
        /\ whatIfLoading' = FALSE
        /\ whatIfFlight' = RemoveAt(whatIfFlight, i)
        /\ UNCHANGED <<selectedFeature, newValue,
                       formVars, indexVars, viewVars, modelVars, historyVars, serviceVars>>

\* handleAnalyze after its await, a non-2xx response or no response at all:
\* only a toast is raised
WhatIfFail ==
    \E i \in 1..Len(whatIfFlight) :
        /\ whatIfLoading' = FALSE
        /\ whatIfFlight' = RemoveAt(whatIfFlight, i)
        /\ UNCHANGED <<selectedFeature, newValue, whatIfResult, formVars, indexVars,
                       viewVars, modelVars, historyVars, serviceVars>>

\* the classification the result alert renders
isImprovement == whatIfResult # Null /\ whatIfResult[1].probability_change < 0

\* the alert reads "This change increases diabetes risk"
ShowsWorsened == whatIfResult # Null /\ ~isImprovement

----------------------------------------------------------------------------
(* PredictionHistory, always rendered by Index: its effect has issued a     *)
(* GET /history in the initial state                                        *)

\* ?limit=50
HistoryLimit == 50

\* the history read operation of the scoring service; asOf records how many
\* predictions of this session the service had served when it read its log
ServiceHistory ==
    LET n == Len(remoteLog)
        first == IF n > HistoryLimit THEN n - HistoryLimit + 1 ELSE 1
    IN  [total_predictions |-> n,
         recent_predictions |-> SubSeq(remoteLog, first, n),
         asOf |-> okCount]

\* the service reads its log for one pending GET /history
ServeHistory ==
    \E i \in 1..Len(historyFlight) :
        /\ historyFlight[i] = Null
        /\ historyFlight' = [historyFlight EXCEPT ![i] = Some(ServiceHistory)]
        /\ UNCHANGED <<historyLoading, historyData, historyError, clearFlight,
                       formVars, indexVars, viewVars, whatIfVars, modelVars, serviceVars>>

\* fetchHistory appending the entries of the response to the ones it holds
HistoryOkMerges ==
    \E i \in 1..Len(historyFlight) :
        /\ historyFlight[i] # Null
        /\ historyData' =
               IF historyData = Null
                   THEN historyFlight[i]
                   ELSE Some([historyFlight[i][1] EXCEPT
                                 !.recent_predictions =
                                     historyData[1].recent_predictions \o @])
        /\ historyLoading' = FALSE
        /\ historyFlight' = RemoveAt(historyFlight, i)
        /\ UNCHANGED <<historyError, clearFlight,
                       formVars, indexVars, viewVars, whatIfVars, modelVars, serviceVars>>

\* fetchHistory after its await, response.ok
HistoryOk ==
    \E i \in 1..Len(historyFlight) :
        /\ historyFlight[i] # Null
        /\ historyData' = historyFlight[i]
        /\ historyLoading' = FALSE
        /\ historyFlight' = RemoveAt(historyFlight, i)
        /\ UNCHANGED <<historyError, clearFlight,
                       formVars, indexVars, viewVars, whatIfVars, modelVars, serviceVars>>

\* a fetchHistory whose catch block drops the data it holds
HistoryFailClearsMirror ==
    \E i \in 1..Len(historyFlight) :
        \E msg \in {"Failed to fetch history", TransportMessage} :
            /\ historyError' = msg
            /\ historyData' = Null
            /\ historyLoading' = FALSE
            /\ historyFlight' = RemoveAt(historyFlight, i)
            /\ UNCHANGED <<clearFlight,
                           formVars, indexVars, viewVars, whatIfVars, modelVars, serviceVars>>

\* fetchHistory after its await, a non-2xx response or no response at all
HistoryFail ==
    \E i \in 1..Len(historyFlight) :
        \E msg \in {"Failed to fetch history", TransportMessage} :
            /\ historyError' = msg
            /\ historyLoading' = FALSE
            /\ historyFlight' = RemoveAt(historyFlight, i)
            /\ UNCHANGED <<historyData, clearFlight,
                           formVars, indexVars, viewVars, whatIfVars, modelVars, serviceVars>>

\* the render guards without the empty-state branch
HistoryShownUnlessFailed ==
    /\ ~historyLoading
    /\ historyError = ""
    /\ historyData # Null

\* the render guards: the spinner, the error alert and the empty state come
\* before the view that holds the Clear History button and the chart
HistoryShown ==
    /\ ~historyLoading
    /\ historyError = ""
    /\ historyData # Null
    /\ historyData[1].total_predictions # 0

\* the empty-state card is rendered
HistoryEmptyState ==
    /\ ~historyLoading
    /\ historyError = ""
    /\ (historyData = Null \/ historyData[1].total_predictions = 0)

\* handleClearHistory up to its await
HandleClearHistory ==
    /\ HistoryShown
    /\ clearFlight + Len(historyFlight) < MaxHistoryFlight
    /\ clearFlight' = clearFlight + 1
    /\ UNCHANGED <<historyLoading, historyData, historyError, historyFlight,
                   formVars, indexVars, viewVars, whatIfVars, modelVars, serviceVars>>

\* handleClearHistory after its await, response.ok: the toast, then fetchHistory()
ClearOk ==
    /\ clearFlight > 0
    /\ clearFlight' = clearFlight - 1
    /\ remoteLog' = <<>>
    /\ fetchHistory
    /\ UNCHANGED <<historyData, okCount, formVars, indexVars, viewVars, whatIfVars, modelVars>>

\* handleClearHistory calling fetchHistory() in a finally block
ClearFailRefreshes ==
    /\ clearFlight > 0
    /\ clearFlight' = clearFlight - 1
    /\ remoteLog' \in {remoteLog, <<>>}
    /\ fetchHistory
    /\ UNCHANGED <<historyData, okCount, formVars, indexVars, viewVars, whatIfVars, modelVars>>

\* handleClearHistory after its await, a non-2xx response or no response at
\* all (the service may or may not have cleared its log): only a toast
ClearFail ==
    /\ clearFlight > 0
    /\ clearFlight' = clearFlight - 1
    /\ remoteLog' \in {remoteLog, <<>>}
    /\ UNCHANGED <<historyLoading, historyData, historyError, historyFlight, okCount,
                   formVars, indexVars, viewVars, whatIfVars, modelVars>>

Reverse(s) == [i \in 1..Len(s) |-> s[Len(s) + 1 - i]]

\* (probability * 100).toFixed(2): the percentage in hundredths
ToFixed2(percent) == percent * 100

\* one element of the map callback: index is the position from 1, as in the
\* label `#${index + 1}`
ChartPoint(log, index) ==
    [name |-> index, probability |-> ToFixed2(log.probability), timestamp |-> log.timestamp]

\* const chartData = data.recent_predictions.map(...).reverse()
chartData(recent) ==
    Reverse([i \in 1..Len(recent) |-> ChartPoint(recent[i], i)])

\* recent_predictions.reduce((acc, log) => acc + log.probability, 0)
RECURSIVE reduceProbability(_, _)
reduceProbability(recent, acc) ==
    IF recent = <<>>
        THEN acc
        ELSE reduceProbability(Tail(recent), acc + Head(recent).probability)

\* x.toFixed(1) for x = num / den: the nearest tenth, in tenths
ToFixed1(num, den) == (20 * num + den) \div (2 * den)

\* the Avg Risk Score: ((reduce(...) / recent_predictions.length) * 100).toFixed(1),
\* in tenths of a percent; 0 / 0 is NaN, rendered as "NaN", here Null
averageRiskScore(recent) ==
    IF Len(recent) = 0
        THEN Null
        ELSE Some(ToFixed1(reduceProbability(recent, 0), Len(recent)))

----------------------------------------------------------------------------
(* ModelInfo, always rendered by Index: its effect runs once and has issued *)
(* GET /model_info and GET /stats in the initial state.  A request stands   *)
(* as "pending", "ok" (2xx), "refused" (non-2xx) or "lost" (the fetch       *)
(* rejected).                                                               *)

ModelOutcomes == {"ok", "refused", "lost"}

ServiceModelInfo == [model_type |-> "classifier", features |-> Fields]

ServiceStats == [total_predictions |-> okCount]

\* a message other than the ones fetchData produces
BodyMessage == "Unexpected token"

\* one of the two fetches resolves or rejects; Promise.all has not settled yet
ModelRespond ==
    /\ modelLoading
    /\ \E r \in ModelRequests, o \in ModelOutcomes :
          /\ modelFlight[r] = "pending"
          /\ modelFlight' = [modelFlight EXCEPT ![r] = o]
    /\ UNCHANGED <<modelLoading, modelData, statsData, modelError,
                   formVars, indexVars, viewVars, whatIfVars, historyVars, serviceVars>>

\* Promise.all settles: it rejects as soon as one fetch has rejected, and
\* resolves once both have resolved
AllSettled ==
    \/ \E r \in ModelRequests : modelFlight[r] = "lost"
    \/ \A r \in ModelRequests : modelFlight[r] # "pending"

\* a fetchData that installs each body whose own response was 2xx
fetchDataEachAlone(readable) ==
    /\ modelData' = IF modelFlight["model_info"] = "ok" THEN Some(ServiceModelInfo) ELSE modelData
    /\ statsData' = IF modelFlight["stats"] = "ok" THEN Some(ServiceStats) ELSE statsData
    /\ modelError' = IF \A r \in ModelRequests : modelFlight[r] = "ok"
                         THEN modelError
                         ELSE "Failed to fetch model information"

\* the rest of fetchData after await Promise.all; readable tells whether both
\* bodies parse as JSON
fetchData(readable) ==
    IF \E r \in ModelRequests : modelFlight[r] = "lost"
        THEN /\ modelError' = TransportMessage
             /\ UNCHANGED <<modelData, statsData>>
        ELSE IF \E r \in ModelRequests : modelFlight[r] # "ok"
            THEN /\ modelError' = "Failed to fetch model information"
                 /\ UNCHANGED <<modelData, statsData>>
            ELSE IF ~readable
                THEN /\ modelError' = BodyMessage
                     /\ UNCHANGED <<modelData, statsData>>
                ELSE /\ modelData' = Some(ServiceModelInfo)
                     /\ statsData' = Some(ServiceStats)
                     /\ UNCHANGED modelError

ModelSettle ==
    /\ modelLoading
    /\ AllSettled
    /\ \E readable \in BOOLEAN : fetchData(readable)
    /\ modelLoading' = FALSE
    /\ UNCHANGED <<modelFlight, formVars, indexVars, viewVars, whatIfVars, historyVars,
                   serviceVars>>

\* a fetch still pending when Promise.all rejected resolves later; nobody
\* awaits it
ModelLateRespond ==
    /\ ~modelLoading
    /\ \E r \in ModelRequests, o \in ModelOutcomes :
          /\ modelFlight[r] = "pending"
          /\ modelFlight' = [modelFlight EXCEPT ![r] = o]
    /\ UNCHANGED <<modelLoading, modelData, statsData, modelError,
                   formVars, indexVars, viewVars, whatIfVars, historyVars, serviceVars>>

\* the render guards of ModelInfo: the cards are rendered
ModelShown == ~modelLoading /\ modelError = "" /\ modelData # Null /\ statsData # Null

\* the render guards of ModelInfo: the destructive alert is rendered
ModelAlert == ~modelLoading /\ (modelError # "" \/ modelData = Null \/ statsData = Null)

----------------------------------------------------------------------------
(* Specifications.  Spec is the session core: the form and Index.  The     *)
(* others add one component each to the core.                              *)

Next ==
    \/ HandleInputChange
    \/ HandleSubmit
    \/ PredictOk
    \/ PredictFail
    \/ ResetForm

Spec == Init /\ [][Next]_vars

\* the form filled in with an accepted input
FilledForms ==
    {[DefaultFormData EXCEPT !.BMI = 28, !.Age = 45]}

InitViews == \E v \in Views : InitWith(DefaultFormData, v)

NextViews ==
    \/ Next
    \/ ViewOk
    \/ ViewFail

SpecViews == InitViews /\ [][NextViews]_vars

\* the dependent views on their own: a filled form is committed and the view
\* that is served renders what the service answers
InitAggregates == \E fd \in FilledForms : \E v \in Views : InitWith(fd, v)

NextAggregates ==
    \/ HandleSubmit
    \/ PredictOk
    \/ PredictFail
    \/ ViewOk
    \/ ViewFail

SpecAggregates == InitAggregates /\ [][NextAggregates]_vars

NextWhatIf ==
    \/ Next
    \/ SetSelectedFeature
    \/ SetNewValue
    \/ HandleAnalyze
    \/ WhatIfOk
    \/ WhatIfFail

SpecWhatIf == Init /\ [][NextWhatIf]_vars

\* what the scoring service holds when the page is opened: nothing, or an
\* entry of an earlier session
EarlierLogs ==
    {<<>>, <<[timestamp |-> 0,
              input |-> [DefaultFormData EXCEPT !.BMI = 28, !.Age = 46],
              prediction |-> "Diabetic",
              probability |-> 74]>>}

InitHistory ==
    \E fd \in FilledForms : \E log \in EarlierLogs : InitSession(fd, "detailed", log)

NextHistory ==
    \/ HandleSubmit
    \/ PredictOk
    \/ PredictFail
    \/ ServeHistory
    \/ HistoryOk
    \/ HistoryFail
    \/ HandleClearHistory
    \/ ClearOk
    \/ ClearFail

SpecHistory == InitHistory /\ [][NextHistory]_vars

\* the history ledger when every GET /history is answered with a 2xx: the
\* service reads its log for a pending request and the response is delivered
NextHistoryLive ==
    \/ HandleSubmit
    \/ PredictOk
    \/ PredictFail
    \/ ServeHistory
    \/ HistoryOk
    \/ HandleClearHistory
    \/ ClearOk
    \/ ClearFail

InitHistoryLive == \E fd \in FilledForms : InitWith(fd, "detailed")

SpecHistoryLive ==
    /\ InitHistoryLive
    /\ [][NextHistoryLive]_vars
    /\ WF_vars(ServeHistory)
    /\ WF_vars(HistoryOk)

\* the history ledger with every outcome of its requests, opened on a service
\* whose log is empty
SpecHistoryFresh == InitHistoryLive /\ [][NextHistory]_vars

\* the history ledger when every request is answered with a 2xx, in any order
NextHistoryAnswered ==
    \/ HandleSubmit
    \/ PredictOk
    \/ ServeHistory
    \/ HistoryOk
    \/ HandleClearHistory
    \/ ClearOk

SpecHistoryAnswered == InitHistoryLive /\ [][NextHistoryAnswered]_vars

\* the form as the user may have filled it: every field below, at, inside and
\* above its range
FieldValues(name) ==
    LET r == features[name]
    IN  {r.min - 1, r.min, r.min + 1, r.max, r.max + 1, 0}

FormInputs ==
    [Pregnancies : FieldValues("Pregnancies"), Glucose : FieldValues("Glucose"),
     BloodPressure : FieldValues("BloodPressure"), BMI : FieldValues("BMI"),
     Age : FieldValues("Age")]

InitForm == \E fd \in FormInputs : InitWith(fd, "detailed")

NextForm ==
    \/ HandleSubmit
    \/ PredictOk
    \/ PredictFail
    \/ ResetForm

SpecForm == InitForm /\ [][NextForm]_vars

\* ModelInfo beside the form: its two requests are answered in any order and
\* with any outcome
InitModelInfo == \E fd \in FilledForms : InitWith(fd, "detailed")

NextModelInfo ==
    \/ HandleSubmit
    \/ PredictOk
    \/ PredictFail
    \/ ModelRespond
    \/ ModelSettle
    \/ ModelLateRespond

SpecModelInfo == InitModelInfo /\ [][NextModelInfo]_vars

\* every remote operation of the session side by side, from a filled form
InitRemote == \E fd \in FilledForms : InitWith(fd, "recommendations")

\* the remote operations with their failure outcomes; DELETE /history is never
\* acknowledged with a 2xx
NextFailures ==
    \/ HandleSubmit
    \/ PredictOk
    \/ PredictFail
    \/ ViewOk
    \/ ViewFail
    \/ SetNewValue
    \/ HandleAnalyze
    \/ WhatIfOk
    \/ WhatIfFail
    \/ ServeHistory
    \/ HistoryOk
    \/ HistoryFail
    \/ HandleClearHistory
    \/ ClearFail

SpecFailures == InitRemote /\ [][NextFailures]_vars

\* the requests the session issues: every triggering event, with the requests
\* of the form, of a view, of a what-if run and of a clear failing
NextRequests ==
    \/ HandleSubmit
    \/ PredictOk
    \/ PredictFail
    \/ ViewFail
    \/ SetNewValue
    \/ HandleAnalyze
    \/ WhatIfFail
    \/ ServeHistory
    \/ HistoryOk
    \/ HandleClearHistory
    \/ ClearOk
    \/ ClearFail

SpecRequests == InitRemote /\ [][NextRequests]_vars

----------------------------------------------------------------------------
(* Properties *)

PredictFailureMessages == {"Failed to get prediction", TransportMessage}

\* the closed ranges of the five fields
InClosedRanges(fd) ==
    /\ fd.Pregnancies >= 0 /\ fd.Pregnancies <= 20
    /\ fd.Glucose >= 0 /\ fd.Glucose <= 300
    /\ fd.BloodPressure >= 0 /\ fd.BloodPressure <= 200
    /\ fd.BMI >= 10 /\ fd.BMI <= 70
    /\ fd.Age >= 1 /\ fd.Age <= 120

\* a dependent view presents its data: neither the spinner nor the error alert
ViewShowsData(v) == ~viewLoading[v] /\ viewError[v] = "" /\ viewData[v] # Null

\* C1: a response to a fetch issued for an input that is no longer the current
\* one is discarded, so a dependent view never presents data computed for an
\* older input once a newer input has been committed.
C1_StaleResponseDiscarded ==
    \A v \in Views :
        ViewShowsData(v) => viewData[v][1].scored = currentPrediction[1]

\* C2: whenever the form issues a POST /predict, the submitted form has all
\* five fields within their closed ranges and is the body sent; a form that
\* violates a range issues no request when submitted.
C2_RequestOnlyWhenInRange ==
    [][Len(predictFlight') > Len(predictFlight) =>
          /\ InClosedRanges(formData)
          /\ predictFlight' = Append(predictFlight, predictFlight'[Len(predictFlight')])
          /\ predictFlight'[Len(predictFlight')].body = formData]_vars

\* a request is pending whose body lies on the bounds of BMI and Age
C2_Witness ==
    /\ predictFlight # <<>>
    /\ predictFlight[1].body.BMI = 70
    /\ predictFlight[1].body.Age = 1
    /\ predictFlight[1].body.Pregnancies = 20

\* C3: the revision equals the number of successful commits (1 after the
\* first), a successful commit raises it by exactly one and installs the
\* submitted input with the result returned for it, and no other step changes
\* the revision or the canonical input.
C3_RevisionCountsCommits ==
    /\ [](refreshTrigger = okCount /\ (okCount = 0 <=> currentPrediction = Null))
    /\ [][IF okCount' = okCount + 1
            THEN /\ refreshTrigger' = refreshTrigger + 1
                 /\ \E i \in 1..Len(predictFlight) :
                        /\ predictFlight' = RemoveAt(predictFlight, i)
                        /\ currentPrediction' = Some(predictFlight[i].body)
                        /\ formResult' = Some(ServicePredict(predictFlight[i].body))
            ELSE UNCHANGED <<refreshTrigger, currentPrediction>>]_vars

\* two commits have succeeded and the pair of the second is installed
C3_Witness ==
    /\ okCount = 2
    /\ refreshTrigger = 2
    /\ currentPrediction = Some(formData)
    /\ formData.Age = 60
    /\ formResult = Some(ServicePredict(formData))

\* C4: after a commit that failed in the scoring service call, the canonical
\* input and the result held for it are what they were before the commit: a
\* form resubmitted unchanged after a successful commit, whose predict call
\* fails, still shows the committed input with its result.
C4_FailedCommitKeepsPair ==
    (formIsCurrent /\ ~formLoading /\ formError \in PredictFailureMessages) =>
        /\ currentPrediction = Some(formData)
        /\ formResult = Some(ServicePredict(formData))

\* C5: a submit whose input violates a range leaves the canonical input, the
\* held result and the revision unchanged, notifies no dependent view, issues
\* no request, and reports a validation error.
C5_InvalidSubmitLeavesSession ==
    [][(HandleSubmit /\ ~InClosedRanges(formData)) =>
          /\ UNCHANGED <<currentPrediction, refreshTrigger, formResult, predictFlight>>
          /\ UNCHANGED <<viewVars, historyVars>>
          /\ formError' # ""
          /\ formError' \notin PredictFailureMessages]_vars

\* with a pair committed and its result shown, a submit was rejected
C5_Witness ==
    /\ currentPrediction # Null
    /\ formResult # Null
    /\ ~InClosedRanges(formData)
    /\ formError = "Age must be between 1 and 120"

\* C6: at most one predict request is pending at any time, and one is
\* pending exactly while the form is loading, when no submit can start.
C6_CommitsSerialized ==
    /\ Len(predictFlight) <= 1
    /\ formLoading <=> Len(predictFlight) = 1

\* a second commit is in progress
C6_Witness == formLoading /\ Len(predictFlight) = 1 /\ okCount >= 1

\* C7: a what-if result that is held belongs to the currently selected
\* feature and to the current canonical input.
C7_ScenarioTransient ==
    whatIfResult # Null =>
        /\ whatIfResult[1].feature = selectedFeature
        /\ whatIfResult[1].baseline = currentPrediction[1]

\* C8: no what-if request is sent with an override value outside the closed
\* range of its feature.
C8_OverrideValidated ==
    \A i \in 1..Len(whatIfFlight) :
        /\ whatIfFlight[i].value >= features[whatIfFlight[i].feature].min
        /\ whatIfFlight[i].value <= features[whatIfFlight[i].feature].max

\* C9: a scenario is classified as an improvement exactly when the modified
\* probability minus the baseline probability is negative, and as worsened
\* risk exactly when it is positive.
C9_ClassificationFollowsSign ==
    whatIfResult # Null =>
        LET delta == whatIfResult[1].modified_probability
                         - whatIfResult[1].original_probability
        IN  /\ isImprovement <=> delta < 0
            /\ ShowsWorsened <=> delta > 0

\* C10: point i of the trend series is derived from entry i of the history
\* as returned, and the index labels increase along the series.
C10_TrendKeepsOrder ==
    HistoryShown =>
        LET recent == historyData[1].recent_predictions
            series == chartData(recent)
        IN  /\ \A i \in 1..Len(recent) : series[i].timestamp = recent[i].timestamp
            /\ \A i, j \in 1..Len(recent) : i < j => series[i].name < series[j].name

\* the sum of the probabilities of the entries at the positions in idx
RECURSIVE SumOver(_, _)
SumOver(recent, idx) ==
    IF idx = {}
        THEN 0
        ELSE LET i == CHOOSE j \in idx : TRUE
             IN  recent[i].probability + SumOver(recent, idx \ {i})

\* C11: the Avg Risk Score is never NaN: with an empty list of entries the
\* average is not rendered and the empty state is shown instead; when it is
\* rendered the list is non-empty and the score is the arithmetic mean of the
\* entries' probabilities in percent, to the nearest tenth.
C11_AverageGuarded ==
    /\ (~historyLoading /\ historyError = "" /\ historyData # Null
            /\ Len(historyData[1].recent_predictions) = 0)
          => (HistoryEmptyState /\ ~HistoryShown)
    /\ HistoryShown =>
          LET recent == historyData[1].recent_predictions
              n == Len(recent)
              avg == averageRiskScore(recent)
              total == SumOver(recent, 1..n)
          IN  /\ n > 0
              /\ avg # Null
              /\ 2 * (n * avg[1] - 10 * total) <= n
              /\ 2 * (10 * total - n * avg[1]) <= n

\* the average of three entries is rendered: 220 / 3 percent shows as 73.3
C11_Witness ==
    /\ HistoryShown
    /\ Len(historyData[1].recent_predictions) = 3
    /\ historyData[1].recent_predictions[1].probability = 74
    /\ historyData[1].recent_predictions[2].probability = 73
    /\ historyData[1].recent_predictions[3].probability = 73
    /\ averageRiskScore(historyData[1].recent_predictions) = Some(733)

\* an empty log has been read and the empty state is shown, not the average
C11_WitnessEmpty ==
    /\ historyData # Null
    /\ historyData[1].recent_predictions = <<>>
    /\ HistoryEmptyState

\* C12: before the first successful commit the current input is null, the
\* revision is 0, and no dependent view (detailed analysis, risk assessment,
\* recommendations, what-if) has issued a request or holds a result.
C12_NothingBeforeFirstCommit ==
    okCount = 0 =>
        /\ currentPrediction = Null
        /\ refreshTrigger = 0
        /\ \A v \in Views : viewFlight[v] = <<>> /\ viewData[v] = Null
        /\ ~WhatIfMounted
        /\ whatIfFlight = <<>>
        /\ whatIfResult = Null

\* a commit was attempted and failed in the predict call; none has succeeded
C12_Witness ==
    /\ okCount = 0
    /\ formError \in PredictFailureMessages
    /\ validateForm(formData)
    /\ ~formLoading

\* C13: onPredictionComplete runs exactly once per 2xx predict response, in
\* the step that installs the input: that step raises the revision by one,
\* makes PredictionHistory fetch once and each dependent view at most once,
\* for the committed input; a step that delivers no 2xx predict response (a
\* rejected submit, a failed predict call) notifies nobody.
C13_NotifiedOncePerCommit ==
    [][IF okCount' = okCount + 1
         THEN \E i \in 1..Len(predictFlight) :
                  /\ predictFlight' = RemoveAt(predictFlight, i)
                  /\ currentPrediction' = Some(predictFlight[i].body)
                  /\ refreshTrigger' = refreshTrigger + 1
                  /\ historyFlight' = Append(historyFlight, Null)
                  /\ \A v \in Views :
                         viewFlight'[v] \in
                             {viewFlight[v], Append(viewFlight[v], predictFlight[i].body)}
         ELSE /\ UNCHANGED <<currentPrediction, refreshTrigger, historyFlight>>
              /\ UNCHANGED viewFlight]_vars

\* after one commit succeeded a second one failed in its predict call, and
\* the subscribers have been notified once
C13_Witness ==
    /\ okCount = 1
    /\ refreshTrigger = 1
    /\ Len(historyFlight) = 2
    /\ \A v \in Views : Len(viewFlight[v]) = 1
    /\ formError \in PredictFailureMessages

\* C14: every successful commit makes the history ledger issue a GET /history
\* in the same step, and when such requests are answered with a 2xx, a request
\* pending after the k-th commit leads to the mirror holding the log as the
\* service read it after that commit.
C14_CommitRefreshesHistory ==
    /\ [][okCount' = okCount + 1 =>
              /\ refreshTrigger' = refreshTrigger + 1
              /\ historyFlight' = Append(historyFlight, Null)
              /\ historyLoading']_vars
    /\ \A k \in 1..MaxRevision :
           (/\ okCount >= k
            /\ \E i \in 1..Len(historyFlight) :
                   historyFlight[i] = Null \/ historyFlight[i][1].asOf >= k)
             ~> (historyData # Null /\ historyData[1].asOf >= k)

\* the mirror holds the entry of the second commit of this session
C14_Witness ==
    /\ okCount = 2
    /\ historyData # Null
    /\ historyData[1].asOf = 2
    /\ historyData[1].total_predictions >= 2
    /\ historyFlight = <<>>

\* C15: handleClearHistory issues no GET /history when it is called; one is
\* issued only in the step that receives the 2xx of DELETE /history; when the
\* DELETE fails no GET /history is issued and the mirror is unchanged.
C15_ClearThenRefresh ==
    [][/\ clearFlight' > clearFlight =>
              UNCHANGED <<historyFlight, historyData, historyLoading, historyError>>
       /\ ClearFail =>
              UNCHANGED <<historyFlight, historyData, historyLoading, historyError>>
       /\ ClearOk =>
              /\ historyFlight' = Append(historyFlight, Null)
              /\ historyData' = historyData
       /\ (Len(historyFlight') > Len(historyFlight) /\ okCount' = okCount) =>
              /\ clearFlight' = clearFlight - 1
              /\ remoteLog' = <<>>]_vars

\* the service has been cleared, no clear and no refresh is pending, and the
\* mirror still shows entries
C15_Witness ==
    /\ remoteLog = <<>>
    /\ clearFlight = 0
    /\ historyFlight = <<>>
    /\ HistoryShown
    /\ historyData[1].asOf = okCount

\* C16: whenever the mirror changes, its new value is exactly one of the
\* answered GET /history responses, total and entries, whatever it held.
C16_RefreshReplacesMirror ==
    [][historyData' # historyData =>
          \E i \in 1..Len(historyFlight) :
              /\ historyFlight[i] # Null
              /\ historyData' = historyFlight[i]
              /\ historyFlight' = RemoveAt(historyFlight, i)]_vars

\* the mirror held entries and has been replaced by an empty log
C16_Witness ==
    /\ historyData # Null
    /\ historyData[1].total_predictions = 0
    /\ historyData[1].recent_predictions = <<>>
    /\ historyData[1].asOf >= 1
    /\ ~historyLoading

\* C17: a step that applies a 2xx history response reporting zero total
\* predictions ends with loading finished, no error set and the empty state
\* shown.
C17_EmptyLogIsValid ==
    [][(HistoryOk /\ historyData' # Null /\ historyData'[1].total_predictions = 0) =>
          /\ ~historyLoading'
          /\ historyError' = ""
          /\ HistoryEmptyState']_vars

\* the position of a feature in the declaration order of the five fields
CanonicalIndex(f) == CHOOSE i \in 1..Len(Fields) : Fields[i] = f

\* the position of an entry in a list that holds it once
PositionIn(list, e) == CHOOSE k \in 1..Len(list) : list[k] = e

SortedByWeightDescending(list) ==
    \A i, j \in 1..Len(list) : i < j => list[i].weight >= list[j].weight

TiesInCanonicalOrder(list) ==
    \A i, j \in 1..Len(list) :
        (i < j /\ list[i].weight = list[j].weight) =>
            CanonicalIndex(list[i].feature) < CanonicalIndex(list[j].feature)

\* C18 as stated: the ranked contributions are in descending order of weight
\* and entries of equal weight are in the declaration order Pregnancies,
\* Glucose, BloodPressure, BMI, Age, whatever the order of the input.
C18_TiesByCanonicalOrder ==
    DetailedShown =>
        LET ranked == rankContributions(viewData["detailed"][1].payload)
        IN  SortedByWeightDescending(ranked) /\ TiesInCanonicalOrder(ranked)

\* C18 as amended: the ranked contributions are in descending order of
\* weight, and entries of equal weight are in the declaration order whenever
\* the input lists them in that order.
C18_TiesByCanonicalOrderOfInput ==
    DetailedShown =>
        LET entries == viewData["detailed"][1].payload
            ranked == rankContributions(entries)
        IN  /\ SortedByWeightDescending(ranked)
            /\ TiesInCanonicalOrder(entries) => TiesInCanonicalOrder(ranked)

\* contributions listed Glucose, BMI, Age with Glucose and Age tied are shown
\* as BMI, Glucose, Age
C18_Witness ==
    /\ DetailedShown
    /\ viewData["detailed"][1].payload =
           <<[feature |-> "Glucose", weight |-> 10], [feature |-> "BMI", weight |-> 30],
             [feature |-> "Age", weight |-> 10]>>
    /\ rankContributions(viewData["detailed"][1].payload) =
           <<[feature |-> "BMI", weight |-> 30], [feature |-> "Glucose", weight |-> 10],
             [feature |-> "Age", weight |-> 10]>>

\* C19: the ranked contributions are a permutation of the input in
\* descending order of weight, and two entries of equal weight keep the
\* relative order they had in the input.
C19_RankIsStable ==
    DetailedShown =>
        LET entries == viewData["detailed"][1].payload
            ranked == rankContributions(entries)
        IN  /\ Len(ranked) = Len(entries)
            /\ \A i \in 1..Len(entries) : \E k \in 1..Len(ranked) : ranked[k] = entries[i]
            /\ SortedByWeightDescending(ranked)
            /\ \A i, j \in 1..Len(entries) :
                   (i < j /\ entries[i].weight = entries[j].weight) =>
                       PositionIn(ranked, entries[i]) < PositionIn(ranked, entries[j])

\* [{Age,10},{Glucose,10},{BMI,30}] is shown as BMI, Age, Glucose
C19_Witness ==
    /\ DetailedShown
    /\ viewData["detailed"][1].payload =
           <<[feature |-> "Age", weight |-> 10], [feature |-> "Glucose", weight |-> 10],
             [feature |-> "BMI", weight |-> 30]>>
    /\ rankContributions(viewData["detailed"][1].payload) =
           <<[feature |-> "BMI", weight |-> 30], [feature |-> "Age", weight |-> 10],
             [feature |-> "Glucose", weight |-> 10]>>

\* the number of entries of a list with the given risk level
CountLevel(data, level) == Cardinality({i \in 1..Len(data) : data[i].risk_level = level})

\* C20: whenever the risk summary is rendered, the High, Medium and Low
\* counts are the numbers of entries of that risk level, and they sum to the
\* number of entries.
C20_TierCountsPartition ==
    RiskShown =>
        /\ highRiskCount(riskData) = CountLevel(riskData, "High")
        /\ mediumRiskCount(riskData) = CountLevel(riskData, "Medium")
        /\ lowRiskCount(riskData) = CountLevel(riskData, "Low")
        /\ highRiskCount(riskData) + mediumRiskCount(riskData) + lowRiskCount(riskData)
               = Len(riskData)

\* an assessment with one entry of each level is summarized
C20_Witness ==
    /\ RiskShown
    /\ Len(riskData) = 3
    /\ highRiskCount(riskData) = 1
    /\ mediumRiskCount(riskData) = 1
    /\ lowRiskCount(riskData) = 1

\* C21: submitting the form in which no field has been supplied reports the
\* missing-field error, raised at the first field, Pregnancies, and not a
\* range error of another field.
C21_NothingSuppliedIsMissingField ==
    [][(HandleSubmit /\ formData = DefaultFormData) =>
          /\ formError' = "All fields are required"
          /\ UNCHANGED predictFlight]_vars

\* a field lies outside its closed range
OutOfRange(fd, name) == fd[name] < features[name].min \/ fd[name] > features[name].max

\* the out-of-range message that names a field
RangeMessage(name) ==
    CASE name = "Pregnancies" -> "Pregnancies must be between 0 and 20"
      [] name = "Glucose" -> "Glucose must be between 0 and 300 mg/dL"
      [] name = "BloodPressure" -> "Blood Pressure must be between 0 and 200 mmHg"
      [] name = "BMI" -> "BMI must be between 10 and 70"
      [] name = "Age" -> "Age must be between 1 and 120"

\* C22: a submit of a form whose five fields are all at a bound or inside
\* their range is accepted (no error, the request is issued); a submit of a
\* form with a field below or above its bound is rejected with the
\* out-of-range message of the first such field in the order Pregnancies,
\* Glucose, BloodPressure, BMI, Age.
C22_BoundsAndFirstField ==
    [][HandleSubmit =>
          LET bad == {i \in 1..Len(Fields) : OutOfRange(formData, Fields[i])}
          IN  IF bad = {}
                  THEN /\ formError' = ""
                       /\ predictFlight' =
                              Append(predictFlight,
                                     [body |-> formData, same |-> formIsCurrent])
                  ELSE /\ \E i \in bad :
                              /\ \A j \in bad : i <= j
                              /\ formError' = RangeMessage(Fields[i])
                       /\ UNCHANGED predictFlight]_vars

\* a form with Glucose above and BMI below its bound was rejected for Glucose
C22_Witness ==
    /\ formData.Pregnancies = 20
    /\ formData.Glucose = 301
    /\ formData.BMI = 9
    /\ formError = "Glucose must be between 0 and 300 mg/dL"

\* a form with every field on a bound was accepted
C22_WitnessAccepted ==
    /\ formData = [Pregnancies |-> 0, Glucose |-> 300, BloodPressure |-> 0,
                   BMI |-> 10, Age |-> 120]
    /\ formLoading
    /\ formError = ""

Requests(p, w, h, c, d) ==
    /\ Len(predictFlight') = Len(predictFlight) + p
    /\ Len(whatIfFlight') = Len(whatIfFlight) + w
    /\ Len(historyFlight') = Len(historyFlight) + h
    /\ clearFlight' = clearFlight + c
    /\ \A v \in Views : Len(viewFlight'[v]) = Len(viewFlight[v]) + d[v]

NoView == [v \in Views |-> 0]

\* C24: no request is issued again on its own and none is answered from a cache:
\* a valid submit issues one POST /predict, also for an input submitted before;
\* a commit issues one GET /history and, when the canonical input is a new
\* object, one request per dependent view; an accepted what-if run issues one
\* POST /what_if; a clear issues one DELETE /history and its 2xx response one
\* GET /history; the step that delivers a response, failed or not, takes that
\* request away and issues nothing, and no other step issues a request.
C24_OneRequestPerTrigger ==
    [][/\ HandleSubmit => Requests(IF validateForm(formData) THEN 1 ELSE 0, 0, 0, 0, NoView)
       /\ PredictOk =>
              \E i \in 1..Len(predictFlight) :
                  Requests(-1, 0, 1, 0,
                           [v \in Views |-> IF predictFlight[i].same THEN 0 ELSE 1])
       /\ PredictFail => Requests(-1, 0, 0, 0, NoView)
       /\ ViewFail => Requests(0, 0, 0, 0, [NoView EXCEPT ![served] = -1])
       /\ SetNewValue => Requests(0, 0, 0, 0, NoView)
       /\ HandleAnalyze =>
              Requests(0, IF AnalyzeRejects(selectedFeature, newValue) THEN 0 ELSE 1,
                       0, 0, NoView)
       /\ WhatIfFail => Requests(0, -1, 0, 0, NoView)
       /\ ServeHistory => Requests(0, 0, 0, 0, NoView)
       /\ HistoryOk => Requests(0, 0, -1, 0, NoView)
       /\ HandleClearHistory => Requests(0, 0, 0, 1, NoView)
       /\ ClearOk => Requests(0, 0, 1, -1, NoView)
       /\ ClearFail => Requests(0, 0, 0, -1, NoView)]_vars

\* the second predict request, the request of the served view and a what-if
\* run have failed, and nothing of theirs is awaiting a response
C24_Witness ==
    /\ currentPrediction # Null
    /\ formError = "Failed to get prediction"
    /\ predictFlight = <<>>
    /\ viewError[served] # ""
    /\ \A v \in Views \ {served} : Len(viewFlight[v]) = 1
    /\ viewFlight[served] = <<>>
    /\ whatIfFlight = <<>>
    /\ ~whatIfLoading
    /\ whatIfResult = Null
    /\ newValue = <<45>>
    /\ historyFlight = <<>>
    /\ clearFlight = 0

C26_LastIssuedRefreshWins ==
    (predictFlight = <<>> /\ historyFlight = <<>> /\ clearFlight = 0)
        => historyData = Some(ServiceHistory)

\* C27: while a predict request is awaiting its response the form holds the
\* input that was sent; the commit installs that input as canonical; and a
\* result the form displays was scored for the canonical input.
C27_CommitInstallsWhatWasSent ==
    /\ [](\A i \in 1..Len(predictFlight) : predictFlight[i].body = formData)
    /\ [](formResult # Null =>
              /\ currentPrediction # Null
              /\ formResult[1].scored = currentPrediction[1])
    /\ [][okCount' = okCount + 1 =>
              /\ currentPrediction' = Some(formData)
              /\ formData' = formData
              /\ formResult'[1].scored = formData]_vars

\* the form has been edited after a commit: the result it still displays and
\* the canonical input are those of the submission
C27_Witness ==
    /\ okCount = 1
    /\ ~formLoading
    /\ currentPrediction # Null
    /\ formData # currentPrediction[1]
    /\ formResult = Some(ServicePredict(currentPrediction[1]))

\* C28: a reset happens only while no predict request is awaiting its response;
\* it puts the form's fields back to their defaults and clears the displayed
\* result and the error, and it changes nothing else: the canonical input, the
\* revision, the dependent views, the history and the service are as before and
\* no request is issued.
C28_ResetTouchesFormOnly ==
    [][ResetForm =>
          /\ ~formLoading
          /\ predictFlight = <<>>
          /\ formData' = DefaultFormData
          /\ formResult' = Null
          /\ formError' = ""
          /\ UNCHANGED <<formLoading, predictFlight, currentPrediction, refreshTrigger>>
          /\ UNCHANGED <<viewVars, whatIfVars, historyVars, modelVars, serviceVars>>]_vars

\* the form has been reset after a commit
C28_Witness ==
    /\ refreshTrigger = 1
    /\ currentPrediction # Null
    /\ currentPrediction[1] # DefaultFormData
    /\ formData = DefaultFormData
    /\ formResult = Null
    /\ formError = ""
    /\ ~formLoading

\* C29: a history refresh that fails leaves the mirror as it was, sets the
\* error, ends loading and issues nothing; the mirror changes only in a step
\* that applies a 2xx response of GET /history.
C29_FailedRefreshKeepsMirror ==
    [][/\ HistoryFail =>
              /\ UNCHANGED <<historyData, clearFlight, remoteLog>>
              /\ historyError' \in {"Failed to fetch history", TransportMessage}
              /\ ~historyLoading'
              /\ Len(historyFlight') = Len(historyFlight) - 1
       /\ historyData' # historyData => HistoryOk]_vars

\* the refresh after the second commit has failed: the mirror still holds the
\* one entry it had and the error is set
C29_Witness ==
    /\ okCount = 2
    /\ Len(remoteLog) = 2
    /\ historyFlight = <<>>
    /\ ~historyLoading
    /\ historyError = TransportMessage
    /\ historyData # Null
    /\ historyData[1].total_predictions = 1

\* the outcome of the requests of ModelInfo that failed: refused or lost
ModelFailed == {r \in ModelRequests : modelFlight[r] \in {"refused", "lost"}}

\* C30: ModelInfo holds the model metadata and the usage statistics together
\* or not at all, and it holds them only when both requests were answered with
\* a 2xx; once fetchData has finished with a request refused or lost, the error
\* is set, neither is held and the alert is rendered.
C30_BothOrNeither ==
    /\ modelData = Null <=> statsData = Null
    /\ modelData # Null =>
           /\ \A r \in ModelRequests : modelFlight[r] = "ok"
           /\ ~modelLoading
           /\ modelError = ""
           /\ ModelShown
    /\ (~modelLoading /\ ModelFailed # {}) =>
           /\ modelError \in {"Failed to fetch model information", TransportMessage}
           /\ modelData = Null
           /\ statsData = Null
           /\ ModelAlert

\* GET /model_info was answered with a 2xx and GET /stats was refused
C30_Witness ==
    /\ ~modelLoading
    /\ modelFlight["model_info"] = "ok"
    /\ modelFlight["stats"] = "refused"
    /\ modelError = "Failed to fetch model information"
    /\ modelData = Null
    /\ statsData = Null

\* both requests were answered with a 2xx after a prediction was committed
C30_WitnessBoth ==
    /\ ModelShown
    /\ modelData = Some(ServiceModelInfo)
    /\ statsData[1].total_predictions = 1

====
